---- MODULE Spec2Model ----
(***************************************************************************)
(* A model of the flow transport prototype in rust/src:                    *)
(*                                                                         *)
(*   services/connection_handler.rs  listener, new_outgoing_connection,    *)
(*                                   ConnectionHandler::new, receiver,     *)
(*                                   sender, handle_req                    *)
(*   services/mod.rs                 hello_tower, handle_req, spawn_sender *)
(*                                   hello, handle_connection, handle_frame*)
(*   flow/mod.rs                     hello (the sequential server)         *)
(*                                                                         *)
(* Every tokio task is a process whose position is a pc field; one action  *)
(* is the code between two await points.  The peer, the application that   *)
(* owns the ConnectionHandler and the user supplied handlers are the       *)
(* environment: their moves are separate actions with inputs drawn from    *)
(* small sets, and a budget variable caps how many of them happen.         *)
(***************************************************************************)
EXTENDS Naturals, Integers, Sequences, FiniteSets, TLC

\* connection_handler.rs:16, services/mod.rs:35, flow/mod.rs:27 set 250; the
\* model runs the same code with a small cap so that the cap is reached.
\* MAX_REQUESTS and the reply channel's capacity follow from it as in the code.
MAX_CONNECTIONS == 1

\* connection_handler.rs:17, services/mod.rs:36
MAX_REQUESTS == MAX_CONNECTIONS * 2

\* services/mod.rs:157: a payload shorter than this is a short frame
MIN_PAYLOAD == 8

\* connection_handler.rs:197: mpsc::channel(100), the discovery channel
DISCOVERY_CAPACITY == 100

\* Connection attempts the environment makes in the connection-level
\* specifications: one more than the cap.
NumConns == MAX_CONNECTIONS + 1

\* Environment budgets: frames all peers send, messages the application
\* enqueues, faults (transport, codec, handshake, accept) that happen.
MaxFrames == 2
MaxEnqueue == 1
MaxFaults == 1

\* Frames a peer may have in flight towards the server (socket buffers).
MaxInbound == 1

\* Frames the peer of the hello_tower specification sends: enough to fill the
\* limiter and the reply channel and then one more.
TowerFrames == MAX_REQUESTS + 2

\* Frames the peers of the handle_connection specification send: enough to
\* take every permit of the request semaphore and then two more.
HCFrames == MAX_REQUESTS + 2

Conns == 1..NumConns

\* Tokens a peer puts on a frame: three well-known ones and an ephemeral UID.
Tokens == {"PingPacket", "ReservedForTesting", "AuthTenant", "Ephemeral"}

\* Payload lengths a peer sends: the 3-byte payload of a short frame, and 8.
PayloadLens == {3, MIN_PAYLOAD}

\* Reply-promise UIDs a ping's payload may carry; 0 stands for a payload
\* without one.
UIDs == {1, 2}

Frame == [token : Tokens, len : PayloadLens, uid : UIDs \cup {0}]

VARIABLES
    limit_connections,  \* permits available in the listener's Semaphore
    limit_requests,     \* permits available in the process-wide request Semaphore
    lst,                \* the listener task: [pc, conn]
    disc,               \* the discovery channel (tx, rx) of new_listener
    nextConn,           \* connection attempts made so far
    conn,               \* per connection: construction state, origin, permit
    net,                \* per connection: the byte stream and the peer
    rcv,                \* per connection: the receiver task and its handler tasks
    snd,                \* per connection: the sender task, channel and writer
    hist,               \* per connection: what has happened (history only)
    budget              \* what the environment may still do

vars == <<limit_connections, limit_requests, lst, disc, nextConn, conn, net, rcv, snd, hist, budget>>

NoTasks == [t \in Tokens |-> 0]

RECURSIVE SumOver(_, _)
SumOver(f, S) ==
    IF S = {} THEN 0
    ELSE LET x == CHOOSE y \in S : TRUE IN f[x] + SumOver(f, S \ {x})

\* handler tasks of connection c that hold a permit of its limiter
InFlight(c) == SumOver(rcv[c].handling, Tokens)

\* Whether a sending end of c's outbound channel exists.  A ConnectionHandler
\* owns the only response_tx (connection_handler.rs:150); in hello_tower the
\* receiver task owns it and every spawned task owns a clone
\* (services/mod.rs:168), and so it is in handle_connection (line 206).
TxAlive(c) ==
    IF conn[c].origin \in {"tower", "handle_connection"}
    THEN rcv[c].pc # "done" \/ InFlight(c) > 0 \/ rcv[c].replying > 0
    ELSE snd[c].tx

ConnInit == [st |-> "none", origin |-> "none", permit |-> "none",
             cpSent |-> FALSE, cpRead |-> FALSE, pending |-> 0]
NetInit  == [peer |-> "open", inbound |-> <<>>, wr |-> "ok", closed |-> FALSE,
             sent |-> 0]
RcvInit  == [pc |-> "none", held |-> <<>>, handling |-> NoTasks, replying |-> 0,
             exit |-> "none"]
SndInit  == [pc |-> "none", cur |-> 0, chan |-> <<>>, nEnq |-> 0, tx |-> FALSE,
             taken |-> 0, written |-> <<>>, flushed |-> 0, exit |-> "none"]
HistInit == [shortDispatched |-> FALSE, writers |-> {}, unroutedNone |-> FALSE,
             enqRefused |-> FALSE, pings |-> <<>>, dispatchers |-> {},
             dispatched |-> <<>>, open |-> {}, rep |-> {}, log |-> <<>>,
             ended |-> {}]

\* A request by the position of its frame on the wire.  With budget.trace set
\* hist follows every request of a receiver: dispatched lists the requests in
\* the order they were passed to limit_svc.call, open holds those whose future
\* has not resolved, rep those whose task has a response still to enqueue, and
\* log lists the requests in the order their responses joined the outbound
\* channel.  Without it the tasks are only counted (rcv[c].handling, replying).
\* ended holds the results with which handle_frame has returned in the handler
\* tasks of handle_connection.
Request(frame) == [seq |-> frame.seq, token |-> frame.token]
Untraced == [seq |-> 0, token |-> "none"]
Resolving(c, tok) ==
    IF budget.trace THEN {r \in hist[c].open : r.token = tok} ELSE {Untraced}
Replying(c) == IF budget.trace THEN hist[c].rep ELSE {0}

InitCommon ==
    /\ limit_connections = MAX_CONNECTIONS
    /\ limit_requests = MAX_REQUESTS
    /\ lst = [pc |-> "acquire", conn |-> 0, exit |-> "none", reply |-> <<>>]
    /\ disc = [open |-> TRUE, queued |-> <<>>]
    /\ nextConn = 0
    /\ conn = [c \in Conns |-> ConnInit]
    /\ net = [c \in Conns |-> NetInit]
    /\ rcv = [c \in Conns |-> RcvInit]
    /\ snd = [c \in Conns |-> SndInit]
    /\ hist = [c \in Conns |-> HistInit]


-----------------------------------------------------------------------------
(* Helpers shared by the programs *)

\* Dropping an OwnedSemaphorePermit returns it to the semaphore it came from:
\* the listener's (kind "shared") or the one new_outgoing_connection made for
\* this connection alone (kind "private").
PermitsAfterDrop(kind) ==
    IF kind = "shared" THEN limit_connections + 1 ELSE limit_connections

\* FlowMessage::new(flow, frame): it caches the parsed header, which
\* peek_file_identifier refuses for a payload shorter than MIN_PAYLOAD.
FlowMessage_new(frame) ==
    IF frame.len < MIN_PAYLOAD THEN "err" ELSE "ok"

\* What the future returned by RequestRouter's call can resolve to.
RouterResults == {"some", "none", "err"}

\* Frames the peer of a connection may send.  The router of
\* connection_handler.rs is opaque to the model, so its peers send a request
\* of either payload length and the reply to a request sent to them (an
\* ephemeral token); the other servers look at the token of a frame only
\* once its payload is long enough, so one short frame stands for all.
\* Only flow::hello reads the reply-promise UID of a ping, so only its peers
\* vary it.  handle_connection calls the handle_req of hello_tower, whose
\* choice by token SpecTower follows; its peers send pings, whose handler
\* may answer with a reply, with none, or fail.
PeerFrames(origin) ==
    IF origin \in {"listener", "outgoing"}
    THEN {f \in Frame :
            (f.uid = 0) /\ ((f.token = "PingPacket")
                              \/ (f.token = "Ephemeral" /\ f.len >= MIN_PAYLOAD))}
    ELSE IF origin = "hello"
    THEN {f \in Frame :
            ((f.len < MIN_PAYLOAD) => (f.token = "PingPacket"))
            /\ ((f.uid # 0) <=> (f.token = "PingPacket" /\ f.len >= MIN_PAYLOAD))}
    ELSE IF origin = "handle_connection"
    THEN {f \in Frame : (f.uid = 0) /\ (f.token = "PingPacket")}
    ELSE {f \in Frame :
            (f.uid = 0) /\ ((f.len < MIN_PAYLOAD) => (f.token = "PingPacket"))}

\* connection::new(stream).await returning Ok((reader, writer, connect_packet)):
\* the asynchronous constructor has sent the local ConnectPacket and read the
\* peer's, which it returns.
connection_new(cn) ==
    [cn EXCEPT !.st = "up", !.cpSent = TRUE, !.cpRead = TRUE]

-----------------------------------------------------------------------------
(* connection_handler.rs: ConnectionHandler::listener and new_listener *)

\* limit_connections.clone().acquire_owned().await
listener_acquire ==
    /\ lst.pc = "acquire"
    /\ limit_connections > 0
    /\ limit_connections' = limit_connections - 1
    /\ lst' = [lst EXCEPT !.pc = "accept"]
    /\ UNCHANGED <<disc, nextConn, conn, net, rcv, snd, hist, budget>>
    /\ UNCHANGED limit_requests

\* bind.accept().await yields a socket; ConnectionHandler::new creates the
\* outbound channel and starts the handshake (connection::new(stream).await).
listener_accept ==
    /\ lst.pc = "accept"
    /\ budget.conns > 0
    /\ nextConn < NumConns
    /\ LET c == nextConn + 1 IN
        /\ nextConn' = c
        /\ conn' = [conn EXCEPT ![c] = [ConnInit EXCEPT !.st = "handshake",
                                            !.origin = "listener", !.permit = "shared"]]
        /\ snd' = [snd EXCEPT ![c].tx = TRUE]
        /\ lst' = [lst EXCEPT !.pc = "new", !.conn = c]
    /\ budget' = [budget EXCEPT !.conns = @ - 1]
    /\ UNCHANGED <<limit_connections, disc, net, rcv, hist>>
    /\ UNCHANGED limit_requests

\* bind.accept().await? fails: listener returns, dropping the permit it holds.
listener_accept_err ==
    /\ lst.pc = "accept"
    /\ budget.faults > 0
    /\ budget' = [budget EXCEPT !.faults = @ - 1]
    /\ limit_connections' = PermitsAfterDrop("shared")
    /\ lst' = [lst EXCEPT !.pc = "done", !.exit = "accept"]
    /\ UNCHANGED <<disc, nextConn, conn, net, rcv, snd, hist>>
    /\ UNCHANGED limit_requests

\* tx.send(handler).await? : the handler is published, or, when the
\* application has closed the receiving end, the send fails, the handler is
\* dropped with the error and the listener returns.
listener_send ==
    /\ lst.pc = "send"
    /\ IF disc.open
       THEN /\ Len(disc.queued) < DISCOVERY_CAPACITY
            /\ disc' = [disc EXCEPT !.queued = Append(@, lst.conn)]
            /\ lst' = [lst EXCEPT !.pc = "acquire", !.conn = 0]
            /\ snd' = snd
       ELSE /\ snd' = [snd EXCEPT ![lst.conn].tx = FALSE]
            /\ lst' = [lst EXCEPT !.pc = "done", !.exit = "send"]
            /\ disc' = disc
    /\ UNCHANGED <<limit_connections, nextConn, conn, net, rcv, hist, budget>>
    /\ UNCHANGED limit_requests

\* new_outgoing_connection: connect succeeded, a fresh Semaphore::new(1)
\* gives the permit at once, ConnectionHandler::new starts the handshake.
new_outgoing_connection ==
    /\ budget.conns > 0
    /\ nextConn < NumConns
    /\ LET c == nextConn + 1 IN
        /\ nextConn' = c
        /\ conn' = [conn EXCEPT ![c] = [ConnInit EXCEPT !.st = "handshake",
                                            !.origin = "outgoing", !.permit = "private"]]
        /\ snd' = [snd EXCEPT ![c].tx = TRUE]
    /\ budget' = [budget EXCEPT !.conns = @ - 1]
    /\ UNCHANGED <<limit_connections, lst, disc, net, rcv, hist>>
    /\ UNCHANGED limit_requests

\* ConnectionHandler::new after connection::new(stream).await returned Ok
\* with the reader, the writer and the peer's ConnectPacket (the handshake of
\* connection_new is complete): spawn_sender, spawn_receiver (which now owns
\* the permit), Ok(handler).
ConnectionHandler_new_ok(c) ==
    /\ conn[c].st = "handshake"
    /\ conn[c].origin \in {"listener", "outgoing"}
    /\ conn' = [conn EXCEPT ![c] = connection_new(@)]
    /\ snd' = [snd EXCEPT ![c].pc = "recv"]
    /\ rcv' = [rcv EXCEPT ![c].pc = "read"]
    /\ lst' = IF conn[c].origin = "listener" THEN [lst EXCEPT !.pc = "send"] ELSE lst
    /\ UNCHANGED <<limit_connections, disc, nextConn, net, hist, budget>>
    /\ UNCHANGED limit_requests

\* connection::new(stream).await? fails: new returns Err, dropping the permit,
\* the channel and the stream; in listener the ? makes the listener return.
ConnectionHandler_new_err(c) ==
    /\ conn[c].st = "handshake"
    /\ conn[c].origin \in {"listener", "outgoing"}
    /\ budget.faults > 0
    /\ budget' = [budget EXCEPT !.faults = @ - 1]
    /\ conn' = [conn EXCEPT ![c].st = "failed", ![c].permit = "none"]
    /\ limit_connections' = PermitsAfterDrop(conn[c].permit)
    /\ snd' = [snd EXCEPT ![c].tx = FALSE]
    /\ net' = [net EXCEPT ![c].closed = TRUE]
    /\ lst' = IF conn[c].origin = "listener"
              THEN [lst EXCEPT !.pc = "done", !.exit = "handshake"] ELSE lst
    /\ UNCHANGED <<disc, nextConn, rcv, hist>>
    /\ UNCHANGED limit_requests


-----------------------------------------------------------------------------
(* connection_handler.rs: receiver, spawn_receiver and the tasks it spawns *)

\* Mutant of ReceiverExit: the task ends without giving the permit back, as
\* if spawn_receiver had forgotten it.
ReceiverExit_keeps_permit(c, how) ==
    /\ rcv' = [rcv EXCEPT ![c].pc = "done", ![c].exit = how, ![c].held = <<>>]
    /\ UNCHANGED <<conn, limit_connections>>

\* The receiver returns (Ok on clean EOF, Err otherwise) and spawn_receiver's
\* task prints and drops the connection permit.
ReceiverExit(c, how) ==
    /\ rcv' = [rcv EXCEPT ![c].pc = "done", ![c].exit = how, ![c].held = <<>>]
    /\ conn' = [conn EXCEPT ![c].permit = "none"]
    /\ limit_connections' = PermitsAfterDrop(conn[c].permit)

\* reader.read_frame().await? followed by FlowMessage::new(..)?
receiver_read(c) ==
    /\ conn[c].origin \in {"listener", "outgoing"}
    /\ rcv[c].pc = "read"
    /\ IF net[c].closed
       THEN /\ ReceiverExit(c, "closed")
            /\ UNCHANGED <<net, hist>>
       ELSE IF net[c].inbound # <<>>
       THEN LET frame == Head(net[c].inbound) IN
            /\ net' = [net EXCEPT ![c].inbound = Tail(@)]
            /\ hist' = hist
            /\ IF FlowMessage_new(frame) = "err"
               THEN ReceiverExit(c, "frame_err")
               ELSE /\ rcv' = [rcv EXCEPT ![c].pc = "ready", ![c].held = <<frame>>]
                    /\ UNCHANGED <<conn, limit_connections>>
       ELSE /\ net[c].peer \in {"closed", "error"}
            /\ ReceiverExit(c, IF net[c].peer = "closed" THEN "eof" ELSE "err")
            /\ UNCHANGED <<net, hist>>
    /\ UNCHANGED <<lst, disc, nextConn, snd, budget>>
    /\ UNCHANGED limit_requests

\* Mutant of receiver_dispatch: call without poll_ready, whatever the limiter
\* has in flight.
receiver_dispatch_unready(c) ==
    /\ rcv[c].pc = "ready"
    /\ LET frame == Head(rcv[c].held) IN
        /\ rcv' = [rcv EXCEPT ![c].pc = "read", ![c].held = <<>>,
                              ![c].handling[frame.token] = @ + 1]
        /\ hist' = [hist EXCEPT ![c].shortDispatched =
                                    @ \/ frame.len < MIN_PAYLOAD,
                                ![c].dispatchers = @ \cup {"receiver"},
                                ![c].dispatched = IF budget.trace
                                                  THEN Append(@, frame.seq) ELSE @,
                                ![c].open = IF budget.trace
                                            THEN @ \cup {Request(frame)} ELSE @]
    /\ UNCHANGED <<limit_connections, lst, disc, nextConn, conn, net, snd, budget>>
    /\ UNCHANGED limit_requests

\* poll_fn(|cx| limit_svc.poll_ready(cx)).await? is ready once the limiter has
\* a free permit, which it reserves; limit_svc.call(request) uses it and
\* tokio::spawn follows, all in the receiver task with no await in between.
\* The limiter is a local of the receiver.
receiver_dispatch(c) ==
    /\ rcv[c].pc = "ready"
    /\ InFlight(c) < MAX_REQUESTS
    /\ LET frame == Head(rcv[c].held) IN
        /\ rcv' = [rcv EXCEPT ![c].pc = "read", ![c].held = <<>>,
                              ![c].handling[frame.token] = @ + 1]
        /\ hist' = [hist EXCEPT ![c].shortDispatched =
                                    @ \/ frame.len < MIN_PAYLOAD,
                                ![c].dispatchers = @ \cup {"receiver"},
                                ![c].dispatched = IF budget.trace
                                                  THEN Append(@, frame.seq) ELSE @,
                                ![c].open = IF budget.trace
                                            THEN @ \cup {Request(frame)} ELSE @]
    /\ UNCHANGED <<limit_connections, lst, disc, nextConn, conn, net, snd, budget>>
    /\ UNCHANGED limit_requests

\* The spawned task: fut.await resolves.  The limiter's permit lives in the
\* future, so it is returned here; unwrap() ends the task on Err, None ends
\* it too, Some(response) is still to be enqueued.
task_done(c, tok, result) ==
    /\ conn[c].origin \in {"listener", "outgoing"}
    /\ rcv[c].handling[tok] > 0
    /\ result \in RouterResults
    /\ rcv' = [rcv EXCEPT ![c].handling[tok] = @ - 1,
                          ![c].replying = IF result = "some" THEN @ + 1 ELSE @]
    /\ \E r \in Resolving(c, tok) :
        hist' = [hist EXCEPT ![c].open = @ \ {r},
                             ![c].rep = IF budget.trace /\ result = "some"
                                        THEN @ \cup {r.seq} ELSE @]
    /\ UNCHANGED <<limit_connections, lst, disc, nextConn, conn, net, snd, budget>>
    /\ UNCHANGED limit_requests

\* response_tx.send(message): the message joins the outbound channel unless
\* its receiving end (the sender task) is gone, and then the send is an Err.
ChannelSend(c) ==
    IF snd[c].pc # "done"
    THEN [snd EXCEPT ![c].chan = Append(@, snd[c].nEnq + 1), ![c].nEnq = @ + 1]
    ELSE snd

\* Mutant of task_reply: the task writes its response to the connection's
\* writer itself instead of enqueueing it.
task_reply_direct(c) ==
    /\ conn[c].origin \in {"listener", "outgoing"}
    /\ rcv[c].replying > 0
    /\ rcv' = [rcv EXCEPT ![c].replying = @ - 1]
    /\ snd' = [snd EXCEPT ![c].written = Append(@, snd[c].nEnq + 1)]
    /\ \E n \in Replying(c) :
        hist' = [hist EXCEPT ![c].writers = @ \cup {"task"}, ![c].rep = @ \ {n}]
    /\ UNCHANGED <<limit_connections, lst, disc, nextConn, conn, net, budget>>
    /\ UNCHANGED limit_requests

\* Mutant of task_reply: the task hands its response to the router twice.
task_reply_twice(c) ==
    /\ conn[c].origin \in {"listener", "outgoing"}
    /\ rcv[c].replying > 0
    /\ rcv' = [rcv EXCEPT ![c].replying = @ - 1]
    /\ LET sent == snd[c].tx /\ snd[c].pc # "done" IN
        /\ snd' = IF sent
                  THEN [snd EXCEPT ![c].chan = @ \o <<snd[c].nEnq + 1, snd[c].nEnq + 2>>,
                                   ![c].nEnq = @ + 2]
                  ELSE snd
        /\ \E n \in Replying(c) :
            hist' = [hist EXCEPT ![c].rep = @ \ {n},
                                 ![c].log = IF budget.trace /\ sent
                                            THEN @ \o <<n, n>> ELSE @]
    /\ UNCHANGED <<limit_connections, lst, disc, nextConn, conn, net, budget>>
    /\ UNCHANGED limit_requests

\* The spawned task: svc.call(response).await.unwrap().  The router hands the
\* response to the peer's ConnectionHandler, whose handle_req enqueues it; with
\* the handler dropped or the sender gone the call is an Err and unwrap panics.
task_reply(c) ==
    /\ conn[c].origin \in {"listener", "outgoing"}
    /\ rcv[c].replying > 0
    /\ rcv' = [rcv EXCEPT ![c].replying = @ - 1]
    /\ snd' = IF snd[c].tx THEN ChannelSend(c) ELSE snd
    /\ \E n \in Replying(c) :
        hist' = [hist EXCEPT ![c].rep = @ \ {n},
                             ![c].log = IF budget.trace /\ snd[c].tx /\ snd[c].pc # "done"
                                        THEN Append(@, n) ELSE @]
    /\ UNCHANGED <<limit_connections, lst, disc, nextConn, conn, net, budget>>
    /\ UNCHANGED limit_requests

\* ConnectionHandler::handle_req / Service::call by the application that
\* holds the handler: request.validate()? then response_tx.send(request)?.
\* A message that does not validate is returned as an Err before the send;
\* hist records an Err returned while the sender task was running.
handle_req_enqueue(c, valid) ==
    /\ conn[c].st = "up"
    /\ conn[c].origin \in {"listener", "outgoing"}
    /\ snd[c].tx
    /\ budget.enq > 0
    /\ budget' = [budget EXCEPT !.enq = @ - 1]
    /\ snd' = IF valid THEN ChannelSend(c) ELSE snd
    /\ hist' = [hist EXCEPT ![c].enqRefused = @ \/ (~valid /\ snd[c].pc # "done")]
    /\ UNCHANGED <<limit_connections, lst, disc, nextConn, conn, net, rcv>>
    /\ UNCHANGED limit_requests

\* RequestRouter's send operation for a request that carries a reply-promise
\* token: it registers a pending-reply entry for the connection and enqueues
\* the message with the handler's handle_req.
RequestRouter_send(c) ==
    /\ conn[c].st = "up"
    /\ conn[c].origin \in {"listener", "outgoing"}
    /\ snd[c].tx
    /\ budget.enq > 0
    /\ budget' = [budget EXCEPT !.enq = @ - 1]
    /\ conn' = [conn EXCEPT ![c].pending = @ + 1]
    /\ snd' = ChannelSend(c)
    /\ UNCHANGED <<limit_connections, limit_requests, lst, disc, nextConn, net, rcv, hist>>

\* RequestRouter's future for an inbound frame whose ephemeral token has a
\* pending-reply entry: the frame goes to the entry's one-shot sink, the entry
\* is removed, and the future resolves to None, which ends the spawned task.
RequestRouter_deliver(c) ==
    /\ conn[c].origin \in {"listener", "outgoing"}
    /\ rcv[c].handling["Ephemeral"] > 0
    /\ conn[c].pending > 0
    /\ conn' = [conn EXCEPT ![c].pending = @ - 1]
    /\ rcv' = [rcv EXCEPT ![c].handling["Ephemeral"] = @ - 1]
    /\ \E r \in Resolving(c, "Ephemeral") :
        hist' = [hist EXCEPT ![c].open = @ \ {r}]
    /\ UNCHANGED <<limit_connections, limit_requests, lst, disc, nextConn, net, snd, budget>>

-----------------------------------------------------------------------------
(* connection_handler.rs: sender and spawn_sender *)

\* Dropping the ConnectionWriter closes the writer and with it the underlying
\* stream, so that the next read_frame of the connection fails.
ConnectionWriter_drop(c) ==
    [net EXCEPT ![c].closed = TRUE]

\* The sender task ends: response_rx is dropped with whatever it still holds,
\* the ConnectionWriter is dropped, which closes the stream.
SenderExit(c, how) ==
    /\ snd' = [snd EXCEPT ![c].pc = "done", ![c].exit = how, ![c].cur = 0,
                          ![c].chan = <<>>]
    /\ net' = ConnectionWriter_drop(c)

\* One call of writer.write_frame by the sender: the frame joins the writer's
\* buffer, or the call fails.
WriteFrame(c, m) ==
    [snd EXCEPT ![c].written = Append(@, m), ![c].cur = 0]

\* response_rx.recv().await: a message, or None once every sender end of the
\* channel is dropped and the channel is empty.
sender_recv(c) ==
    /\ snd[c].pc = "recv"
    /\ IF snd[c].chan # <<>>
       THEN /\ snd' = [snd EXCEPT ![c].pc = "write1", ![c].cur = Head(snd[c].chan),
                                  ![c].chan = Tail(@), ![c].taken = @ + 1]
            /\ net' = net
       ELSE /\ ~TxAlive(c)
            /\ SenderExit(c, "ok")
    /\ UNCHANGED <<limit_connections, lst, disc, nextConn, conn, rcv, hist, budget>>
    /\ UNCHANGED limit_requests

\* writer.write_frame(message.frame).await? (the message taken by recv)
sender_write1(c) ==
    /\ snd[c].pc = "write1"
    /\ net[c].wr # "stalled"
    /\ hist' = [hist EXCEPT ![c].writers = @ \cup {"sender"}]
    /\ IF net[c].wr = "ok"
       THEN /\ snd' = [WriteFrame(c, snd[c].cur) EXCEPT ![c].pc = "try"]
            /\ net' = net
       ELSE /\ snd' = [WriteFrame(c, snd[c].cur) EXCEPT ![c].pc = "done",
                            ![c].exit = "write_err", ![c].chan = <<>>]
            /\ net' = ConnectionWriter_drop(c)
    /\ UNCHANGED <<limit_connections, lst, disc, nextConn, conn, rcv, budget>>
    /\ UNCHANGED limit_requests

\* Mutant of sender_try_recv: a message found by try_recv is dropped instead
\* of being handed to write_frame.
sender_try_recv_skip(c) ==
    /\ snd[c].pc = "try"
    /\ IF snd[c].chan # <<>>
       THEN /\ snd' = [snd EXCEPT ![c].chan = Tail(@), ![c].taken = @ + 1]
            /\ net' = net
       ELSE IF TxAlive(c)
       THEN /\ snd' = [snd EXCEPT ![c].pc = "flush"]
            /\ net' = net
       ELSE SenderExit(c, "disconnected")
    /\ UNCHANGED <<limit_connections, lst, disc, nextConn, conn, rcv, hist, budget>>
    /\ UNCHANGED limit_requests

\* response_rx.try_recv(): Ok(message), Err(Empty) or Err(Disconnected)
sender_try_recv(c) ==
    /\ snd[c].pc = "try"
    /\ IF snd[c].chan # <<>>
       THEN /\ snd' = [snd EXCEPT ![c].pc = "write2", ![c].cur = Head(snd[c].chan),
                                  ![c].chan = Tail(@), ![c].taken = @ + 1]
            /\ net' = net
       ELSE IF TxAlive(c)
       THEN /\ snd' = [snd EXCEPT ![c].pc = "flush"]
            /\ net' = net
       ELSE SenderExit(c, "disconnected")
    /\ UNCHANGED <<limit_connections, lst, disc, nextConn, conn, rcv, hist, budget>>
    /\ UNCHANGED limit_requests

\* writer.write_frame(message.frame).await.unwrap() (the message of try_recv)
sender_write2(c) ==
    /\ snd[c].pc = "write2"
    /\ net[c].wr # "stalled"
    /\ hist' = [hist EXCEPT ![c].writers = @ \cup {"sender"}]
    /\ IF net[c].wr = "ok"
       THEN /\ snd' = [WriteFrame(c, snd[c].cur) EXCEPT ![c].pc = "try"]
            /\ net' = net
       ELSE /\ snd' = [WriteFrame(c, snd[c].cur) EXCEPT ![c].pc = "done",
                            ![c].exit = "write_err", ![c].chan = <<>>]
            /\ net' = ConnectionWriter_drop(c)
    /\ UNCHANGED <<limit_connections, lst, disc, nextConn, conn, rcv, budget>>
    /\ UNCHANGED limit_requests

\* writer.flush().await.unwrap()
sender_flush(c) ==
    /\ snd[c].pc = "flush"
    /\ net[c].wr # "stalled"
    /\ hist' = [hist EXCEPT ![c].writers = @ \cup {"sender"}]
    /\ IF net[c].wr = "ok"
       THEN /\ snd' = [snd EXCEPT ![c].pc = "recv", ![c].flushed = Len(snd[c].written)]
            /\ net' = net
       ELSE SenderExit(c, "write_err")
    /\ UNCHANGED <<limit_connections, lst, disc, nextConn, conn, rcv, budget>>
    /\ UNCHANGED limit_requests

-----------------------------------------------------------------------------
(* The environment: peers, the network, the application *)

\* The peer writes one frame: a request, or the reply to a request that is
\* pending on the connection.
\* Frame f as the n-th frame the peer puts on the connection.
OnWire(f, n) == [token |-> f.token, len |-> f.len, uid |-> f.uid, seq |-> n]

peer_send(c, f) ==
    /\ conn[c].st = "up"
    /\ net[c].peer = "open"
    /\ ~net[c].closed
    /\ f \in PeerFrames(conn[c].origin)
    /\ (conn[c].origin \in {"listener", "outgoing"} /\ f.token = "Ephemeral")
            => conn[c].pending > 0
    /\ Len(net[c].inbound) < MaxInbound
    /\ budget.frames > 0
    /\ budget' = [budget EXCEPT !.frames = @ - 1]
    /\ net' = [net EXCEPT ![c].inbound = Append(@, OnWire(f, net[c].sent + 1)),
                          ![c].sent = @ + 1]
    /\ UNCHANGED <<limit_connections, lst, disc, nextConn, conn, rcv, snd, hist>>
    /\ UNCHANGED limit_requests

\* The peer half-closes its write side at a frame boundary.
peer_close(c) ==
    /\ conn[c].st = "up"
    /\ net[c].peer = "open"
    /\ net' = [net EXCEPT ![c].peer = "closed"]
    /\ UNCHANGED <<limit_connections, lst, disc, nextConn, conn, rcv, snd, hist, budget>>
    /\ UNCHANGED limit_requests

\* The inbound stream breaks: a codec error (zero or oversized length, EOF
\* inside a frame) or a transport error of the read side.
peer_error(c) ==
    /\ conn[c].st = "up"
    /\ net[c].peer = "open"
    /\ budget.faults > 0
    /\ budget' = [budget EXCEPT !.faults = @ - 1]
    /\ net' = [net EXCEPT ![c].peer = "error"]
    /\ UNCHANGED <<limit_connections, lst, disc, nextConn, conn, rcv, snd, hist>>
    /\ UNCHANGED limit_requests

\* The outbound stream breaks: write_frame and flush fail from now on.
writer_break(c) ==
    /\ conn[c].st = "up"
    /\ net[c].wr = "ok"
    /\ snd[c].pc # "done"
    /\ budget.faults > 0
    /\ budget' = [budget EXCEPT !.faults = @ - 1]
    /\ net' = [net EXCEPT ![c].wr = "broken"]
    /\ UNCHANGED <<limit_connections, lst, disc, nextConn, conn, rcv, snd, hist>>
    /\ UNCHANGED limit_requests

\* The peer stops reading: once its buffers are full, a write_frame or flush
\* of the connection does not complete.
peer_stall(c) ==
    /\ conn[c].st = "up"
    /\ net[c].wr = "ok"
    /\ snd[c].pc # "done"
    /\ budget.faults > 0
    /\ budget' = [budget EXCEPT !.faults = @ - 1]
    /\ net' = [net EXCEPT ![c].wr = "stalled"]
    /\ UNCHANGED <<limit_connections, limit_requests, lst, disc, nextConn, conn, rcv, snd,
                   hist>>

\* The application takes the next handler from the discovery channel.
app_recv_handler ==
    /\ disc.queued # <<>>
    /\ disc' = [disc EXCEPT !.queued = Tail(@)]
    /\ UNCHANGED <<limit_connections, lst, nextConn, conn, net, rcv, snd, hist, budget>>
    /\ UNCHANGED limit_requests

\* The application drops a handler it holds: the last response_tx is gone.
app_drop_handler(c) ==
    /\ conn[c].st = "up"
    /\ conn[c].origin \in {"listener", "outgoing"}
    /\ snd[c].tx
    /\ ~(lst.pc = "send" /\ lst.conn = c)
    /\ \A i \in 1..Len(disc.queued) : disc.queued[i] # c
    /\ snd' = [snd EXCEPT ![c].tx = FALSE]
    /\ UNCHANGED <<limit_connections, lst, disc, nextConn, conn, net, rcv, hist, budget>>
    /\ UNCHANGED limit_requests

\* The application closes the discovery channel's receiving end; the handlers
\* still queued in it are dropped with it.
app_close_discovery ==
    /\ disc.open
    /\ budget.faults > 0
    /\ budget' = [budget EXCEPT !.faults = @ - 1]
    /\ disc' = [open |-> FALSE, queued |-> <<>>]
    /\ snd' = [c \in Conns |->
                IF \E i \in 1..Len(disc.queued) : disc.queued[i] = c
                THEN [snd[c] EXCEPT !.tx = FALSE] ELSE snd[c]]
    /\ UNCHANGED <<limit_connections, lst, nextConn, conn, net, rcv, hist>>
    /\ UNCHANGED limit_requests

-----------------------------------------------------------------------------
(* Spec: connection_handler.rs with its data path *)

\* Spec follows one connection through its whole life, accepted by the
\* listener or opened with new_outgoing_connection; connections share nothing
\* but the listener and its semaphore, which SpecConn follows for NumConns
\* connections.
DataConns == {1}

Init ==
    /\ InitCommon
    /\ budget = [conns |-> Cardinality(DataConns), frames |-> MaxFrames, enq |-> MaxEnqueue,
                 faults |-> MaxFaults,
                 trace |-> FALSE]

Next ==
    \/ listener_acquire
    \/ listener_accept
    \/ listener_send
    \/ new_outgoing_connection
    \/ \E c \in Conns : ConnectionHandler_new_ok(c)
    \/ \E c \in Conns : ConnectionHandler_new_err(c)
    \/ \E c \in Conns : receiver_read(c)
    \/ \E c \in Conns : receiver_dispatch(c)
    \/ \E c \in Conns, tok \in Tokens, result \in RouterResults : task_done(c, tok, result)
    \/ \E c \in Conns : task_reply(c)
    \/ \E c \in Conns, valid \in BOOLEAN : handle_req_enqueue(c, valid)
    \/ \E c \in Conns : sender_recv(c)
    \/ \E c \in Conns : sender_write1(c)
    \/ \E c \in Conns : sender_try_recv(c)
    \/ \E c \in Conns : sender_write2(c)
    \/ \E c \in Conns : sender_flush(c)
    \/ \E c \in Conns, f \in Frame : peer_send(c, f)
    \/ \E c \in Conns : peer_close(c)
    \/ \E c \in Conns : peer_error(c)
    \/ \E c \in Conns : writer_break(c)
    \/ app_recv_handler
    \/ \E c \in Conns : app_drop_handler(c)

Spec == Init /\ [][Next]_vars


\* Fairness of the tokio scheduler: a task that can run is run.  Nothing is
\* assumed of the peer, the network or the application.
TaskSteps(c) ==
    \/ receiver_read(c)
    \/ receiver_dispatch(c)
    \/ \E tok \in Tokens, result \in RouterResults : task_done(c, tok, result)
    \/ task_reply(c)
    \/ sender_recv(c)
    \/ sender_write1(c)
    \/ sender_try_recv(c)
    \/ sender_write2(c)
    \/ sender_flush(c)

FairSpec == Spec /\ \A c \in DataConns : WF_vars(TaskSteps(c))

-----------------------------------------------------------------------------
(* Claims checked under Spec and FairSpec *)

SeqUpTo(n) == [i \in 1..n |-> i]

\* C4: every message the sender takes from the outbound channel (by recv or
\* by try_recv) gets exactly one write_frame call, and the calls are in the
\* order the messages were enqueued: the calls made so far are messages
\* 1, 2, .., k, the only taken message without a call is the one in hand, and
\* it is message k + 1.
C4_WrittenOnceInOrder ==
    \A c \in Conns :
        /\ snd[c].written = SeqUpTo(Len(snd[c].written))
        /\ snd[c].taken = Len(snd[c].written) + (IF snd[c].cur # 0 THEN 1 ELSE 0)
        /\ snd[c].cur # 0 => snd[c].cur = Len(snd[c].written) + 1
        /\ snd[c].pc # "done" =>
              snd[c].chan = [i \in 1..(snd[c].nEnq - snd[c].taken) |-> snd[c].taken + i]

\* C4 witness: a message taken by try_recv has been written after one taken
\* by recv.
C4_Witness ==
    \E c \in Conns : Len(snd[c].written) >= 2 /\ snd[c].pc = "try"

\* C5: absent write errors, whenever the sender is about to wait on the
\* channel, and when it has ended, every frame it has written is flushed.
C5_FlushedBeforeWaitOrExit ==
    \A c \in Conns :
        (net[c].wr = "ok" /\ snd[c].pc \in {"recv", "done"})
            => snd[c].flushed = Len(snd[c].written)

C7_ShortFrameDiscarded ==
    \A c \in Conns : ~hist[c].shortDispatched /\ rcv[c].exit # "frame_err"

\* C10: only the sender task calls write_frame or flush on a connection's
\* writer, and every frame it writes was taken from the outbound channel.
C10_SingleWriter ==
    \A c \in Conns :
        /\ hist[c].writers \subseteq {"sender"}
        /\ \A i \in 1..Len(snd[c].written) : snd[c].written[i] \in 1..snd[c].nEnq
        /\ Len(snd[c].written) <= snd[c].taken

\* C10 witness: a handler's reply and a message of the application have both
\* gone through the channel and the sender has written and flushed them.
C10_Witness ==
    \E c \in Conns : snd[c].flushed >= 2 /\ hist[c].writers = {"sender"}


-----------------------------------------------------------------------------
(* SpecConn: connection_handler.rs, the life of NumConns connections.  No    *)
(* peer sends a frame and the application enqueues nothing.                  *)

InitConn ==
    /\ InitCommon
    /\ budget = [conns |-> NumConns, frames |-> 0, enq |-> 0, faults |-> MaxFaults,
                 trace |-> FALSE]

NextConn ==
    \/ listener_acquire
    \/ listener_accept
    \/ listener_accept_err
    \/ listener_send
    \/ new_outgoing_connection
    \/ \E c \in Conns : ConnectionHandler_new_ok(c)
    \/ \E c \in Conns : ConnectionHandler_new_err(c)
    \/ \E c \in Conns : receiver_read(c)
    \/ \E c \in Conns : sender_recv(c)
    \/ \E c \in Conns : peer_close(c)
    \/ \E c \in Conns : peer_error(c)
    \/ app_recv_handler
    \/ \E c \in Conns : app_drop_handler(c)
    \/ app_close_discovery

SpecConn == InitConn /\ [][NextConn]_vars

\* connections whose receiver is running
LiveConnections == {c \in Conns : rcv[c].pc \in {"read", "ready"}}

\* C1: the number of live connections, accepted by the listener or opened
\* with new_outgoing_connection, never exceeds MAX_CONNECTIONS.
C1_LiveConnectionsBounded ==
    Cardinality(LiveConnections) <= MAX_CONNECTIONS

\* C9: an error on one connection never stops the listener loop: if the
\* listener has returned, it is because accept or the discovery channel
\* failed, not because a connection's handshake failed.
C9_ErrorsStayOnTheirConnection ==
    lst.pc = "done" => lst.exit \in {"accept", "send"}


-----------------------------------------------------------------------------
(* flow/mod.rs: hello, the sequential server.  lst is its one task; it     *)
(* serves the connection lst.conn.                                          *)

\* server.limit_connections.acquire().await.unwrap().forget()
hello_acquire ==
    /\ lst.pc = "acquire"
    /\ limit_connections > 0
    /\ limit_connections' = limit_connections - 1
    /\ lst' = [lst EXCEPT !.pc = "accept"]
    /\ UNCHANGED <<disc, nextConn, conn, net, rcv, snd, hist, budget>>
    /\ UNCHANGED limit_requests

\* server.listener.accept().await? and Connection::new(socket.0)
hello_accept ==
    /\ lst.pc = "accept"
    /\ budget.conns > 0
    /\ nextConn < NumConns
    /\ LET c == nextConn + 1 IN
        /\ nextConn' = c
        /\ conn' = [conn EXCEPT ![c] = [ConnInit EXCEPT !.st = "up",
                                            !.origin = "hello", !.permit = "forgotten"]]
        /\ lst' = [lst EXCEPT !.pc = "connect_packet", !.conn = c]
    /\ budget' = [budget EXCEPT !.conns = @ - 1]
    /\ UNCHANGED <<limit_connections, disc, net, rcv, snd, hist>>
    /\ UNCHANGED limit_requests

\* One of the ? of hello takes effect: hello returns the error, dropping the
\* connection it serves.  Permits are not involved: the one taken was forgotten.
HelloReturn(why) ==
    /\ lst' = [lst EXCEPT !.pc = "done", !.exit = why, !.reply = <<>>]
    /\ conn' = IF lst.conn \in Conns
               THEN [conn EXCEPT ![lst.conn].st = "closed"] ELSE conn

\* server.listener.accept().await? fails
hello_accept_err ==
    /\ lst.pc = "accept"
    /\ budget.faults > 0
    /\ budget' = [budget EXCEPT !.faults = @ - 1]
    /\ HelloReturn("accept")
    /\ UNCHANGED <<limit_connections, disc, nextConn, net, rcv, snd, hist>>
    /\ UNCHANGED limit_requests

\* conn.send_connect_packet().await?
hello_send_connect_packet ==
    /\ lst.pc = "connect_packet"
    /\ IF net[lst.conn].wr = "ok"
       THEN /\ lst' = [lst EXCEPT !.pc = "read"]
            /\ conn' = [conn EXCEPT ![lst.conn].cpSent = TRUE]
       ELSE HelloReturn("connection")
    /\ UNCHANGED <<limit_connections, disc, nextConn, net, rcv, snd, hist, budget>>
    /\ UNCHANGED limit_requests

\* ping_request::root_as_fake_root(&frame.payload[..])? : the payload of a
\* short frame does not verify.
root_as_fake_root(frame) ==
    IF frame.len < MIN_PAYLOAD THEN "err" ELSE "ok"

\* conn.read_frame().await? and the match on the frame's token.  For a ping
\* the reply frame is built: its token is the reply-promise UID of the
\* payload, its payload is Vec::new().
hello_read_frame ==
    /\ lst.pc = "read"
    /\ LET c == lst.conn IN
       IF net[c].inbound # <<>>
       THEN LET frame == Head(net[c].inbound) IN
            /\ net' = [net EXCEPT ![c].inbound = Tail(@)]
            /\ IF frame.token = "PingPacket"
               THEN IF root_as_fake_root(frame) = "ok"
                    THEN /\ lst' = [lst EXCEPT !.pc = "write",
                                        !.reply = <<[token |-> frame.uid, len |-> 0]>>]
                         /\ hist' = [hist EXCEPT ![c].pings = Append(@, frame.uid)]
                         /\ conn' = conn
                    ELSE /\ HelloReturn("connection")
                         /\ hist' = hist
               ELSE UNCHANGED <<lst, conn, hist>>
       ELSE /\ net[c].peer \in {"closed", "error"}
            /\ net' = net
            /\ hist' = hist
            /\ IF net[c].peer = "closed"
               THEN /\ lst' = [lst EXCEPT !.pc = "acquire", !.conn = 0]
                    /\ conn' = [conn EXCEPT ![c].st = "closed"]
               ELSE HelloReturn("connection")
    /\ UNCHANGED <<limit_connections, disc, nextConn, rcv, snd, budget>>
    /\ UNCHANGED limit_requests

\* Mutant of hello_write_frame: the reply keeps the payload of the request
\* instead of an empty one.
hello_write_frame_payload ==
    /\ lst.pc = "write"
    /\ LET c == lst.conn IN
       IF net[c].wr = "ok"
       THEN /\ snd' = [snd EXCEPT ![c].written =
                            Append(@, [Head(lst.reply) EXCEPT !.len = MIN_PAYLOAD])]
            /\ lst' = [lst EXCEPT !.pc = "read", !.reply = <<>>]
            /\ conn' = conn
       ELSE /\ HelloReturn("connection")
            /\ snd' = snd
    /\ UNCHANGED <<limit_connections, disc, nextConn, net, rcv, hist, budget>>
    /\ UNCHANGED limit_requests

\* conn.write_frame(frame).await? with the reply to a ping
hello_write_frame ==
    /\ lst.pc = "write"
    /\ LET c == lst.conn IN
       IF net[c].wr = "ok"
       THEN /\ snd' = [snd EXCEPT ![c].written = Append(@, Head(lst.reply))]
            /\ lst' = [lst EXCEPT !.pc = "read", !.reply = <<>>]
            /\ conn' = conn
       ELSE /\ HelloReturn("connection")
            /\ snd' = snd
    /\ UNCHANGED <<limit_connections, disc, nextConn, net, rcv, hist, budget>>
    /\ UNCHANGED limit_requests

InitHello ==
    /\ InitCommon
    /\ budget = [conns |-> NumConns, frames |-> MaxFrames, enq |-> 0,
                 faults |-> MaxFaults,
                 trace |-> FALSE]

NextHello ==
    \/ hello_acquire
    \/ hello_accept
    \/ hello_accept_err
    \/ hello_send_connect_packet
    \/ hello_read_frame
    \/ hello_write_frame
    \/ \E c \in Conns, f \in Frame : peer_send(c, f)
    \/ \E c \in Conns : peer_close(c)
    \/ \E c \in Conns : peer_error(c)
    \/ \E c \in Conns : writer_break(c)

SpecHello == InitHello /\ [][NextHello]_vars

\* C3: a connection that ends, however it ends, gives its permit back: when
\* every connection made so far has ended and the server is back at the top of
\* its loop, the semaphore holds MAX_CONNECTIONS permits again.
C3_PermitsReturned ==
    (lst.pc = "acquire" /\ \A c \in Conns : conn[c].st # "up")
        => limit_connections = MAX_CONNECTIONS


-----------------------------------------------------------------------------
(* services/mod.rs: hello_tower, handle_req and spawn_sender.  The sender   *)
(* task of spawn_sender runs the loop of connection_handler.rs's sender and *)
(* is modelled by the same actions; lst is the accept loop.                 *)

\* mpsc::channel::<Frame>(MAX_REQUESTS / 10), services/mod.rs:144.  tokio
\* refuses a capacity of 0, which the quotient is at the model's small
\* MAX_REQUESTS, so the capacity is at least 1.
ReplyCapacity ==
    IF MAX_REQUESTS \div 10 > 0 THEN MAX_REQUESTS \div 10 ELSE 1

\* Tokens handle_req has a handler for
Handled == {"PingPacket", "ReservedForTesting"}

\* handle_req: what the future can resolve to for a frame with this token.
\* validate() or a handler may fail ("err"); ping_request::handle and
\* network_test::handle answer with a reply or with none; every other
\* well-known token and every ephemeral token is logged and yields None.
handle_req(tok) ==
    IF tok \in Handled THEN {"some", "none", "err"} ELSE {"none", "err"}

\* limit_connections.clone().acquire_owned().await?
hello_tower_acquire ==
    /\ lst.pc = "acquire"
    /\ limit_connections > 0
    /\ limit_connections' = limit_connections - 1
    /\ lst' = [lst EXCEPT !.pc = "accept"]
    /\ UNCHANGED <<disc, nextConn, conn, net, rcv, snd, hist, budget>>
    /\ UNCHANGED limit_requests

\* bind.accept().await?, connection::new(socket.0), which is synchronous and
\* returns the two halves only (the send of the ConnectPacket is commented
\* out at line 138), the reply channel, spawn_sender and the spawn of the
\* receiver task, which owns the permit; then the loop starts over.
hello_tower_accept ==
    /\ lst.pc = "accept"
    /\ budget.conns > 0
    /\ nextConn < NumConns
    /\ LET c == nextConn + 1 IN
        /\ nextConn' = c
        /\ conn' = [conn EXCEPT ![c] = [ConnInit EXCEPT !.st = "up",
                                            !.origin = "tower", !.permit = "shared"]]
        /\ snd' = [snd EXCEPT ![c].pc = "recv"]
        /\ rcv' = [rcv EXCEPT ![c].pc = "read"]
    /\ lst' = [lst EXCEPT !.pc = "acquire"]
    /\ budget' = [budget EXCEPT !.conns = @ - 1]
    /\ UNCHANGED <<limit_connections, disc, net, hist>>
    /\ UNCHANGED limit_requests

\* bind.accept().await? fails: hello_tower returns, dropping its permit.
hello_tower_accept_err ==
    /\ lst.pc = "accept"
    /\ budget.faults > 0
    /\ budget' = [budget EXCEPT !.faults = @ - 1]
    /\ limit_connections' = PermitsAfterDrop("shared")
    /\ lst' = [lst EXCEPT !.pc = "done", !.exit = "accept"]
    /\ UNCHANGED <<disc, nextConn, conn, net, rcv, snd, hist>>
    /\ UNCHANGED limit_requests

\* The receiver task of hello_tower up to poll_ready: reader.read_frame().await?,
\* the length check, peek_file_identifier()?, from_id(file_identifier)?,
\* response_tx.clone().  known tells whether the file identifier in the
\* frame's payload is one the table has a name for; from_id is an Err for any
\* other.  On None the task breaks and drops the permit; on Err it ends and
\* its captured permit is dropped with it.
hello_tower_read(c, known) ==
    /\ conn[c].origin = "tower"
    /\ rcv[c].pc = "read"
    /\ IF net[c].closed
       THEN /\ ReceiverExit(c, "closed")
            /\ net' = net
       ELSE IF net[c].inbound # <<>>
       THEN LET frame == Head(net[c].inbound) IN
            /\ net' = [net EXCEPT ![c].inbound = Tail(@)]
            /\ IF frame.len < MIN_PAYLOAD
               THEN UNCHANGED <<rcv, conn, limit_connections>>
               ELSE IF ~known
               THEN ReceiverExit(c, "file_identifier")
               ELSE /\ rcv' = [rcv EXCEPT ![c].pc = "ready", ![c].held = <<frame>>]
                    /\ UNCHANGED <<conn, limit_connections>>
       ELSE /\ net[c].peer \in {"closed", "error"}
            /\ ReceiverExit(c, IF net[c].peer = "closed" THEN "eof" ELSE "err")
            /\ net' = net
    /\ UNCHANGED <<lst, disc, nextConn, snd, hist, budget>>
    /\ UNCHANGED limit_requests

\* The spawned task from fut.await to its next await point.  fut resolves to
\* what handle_req returns, and the limiter's permit, which lives in the
\* future, is returned.  unwrap() ends the task on Err and None ends it.
\* Some(response) goes to response_tx.send(response.frame).await.unwrap():
\* with room in the reply channel the frame is enqueued and the task ends,
\* with the sender task gone unwrap panics, and with the channel full the
\* task waits in send.
hello_tower_task_done(c, tok, result) ==
    /\ conn[c].origin = "tower"
    /\ rcv[c].handling[tok] > 0
    /\ result \in handle_req(tok)
    /\ LET waits == /\ result = "some"
                    /\ snd[c].pc # "done"
                    /\ Len(snd[c].chan) >= ReplyCapacity
       IN /\ rcv' = [rcv EXCEPT ![c].handling[tok] = @ - 1,
                                ![c].replying = IF waits THEN @ + 1 ELSE @]
          /\ snd' = IF result = "some" /\ ~waits THEN ChannelSend(c) ELSE snd
          /\ \E r \in Resolving(c, tok) :
              hist' = [hist EXCEPT
                  ![c].unroutedNone = @ \/ (tok \notin Handled /\ result = "none"),
                  ![c].open = @ \ {r},
                  ![c].rep = IF budget.trace /\ waits THEN @ \cup {r.seq} ELSE @,
                  ![c].log = IF /\ budget.trace
                                /\ result = "some" /\ ~waits /\ snd[c].pc # "done"
                             THEN Append(@, r.seq) ELSE @]
    /\ UNCHANGED <<limit_connections, lst, disc, nextConn, conn, net, budget>>
    /\ UNCHANGED limit_requests

\* A task waiting in response_tx.send(..).await resumes: the reply channel
\* has room again, or the sender task is gone and unwrap panics.
hello_tower_task_send(c) ==
    /\ conn[c].origin = "tower"
    /\ rcv[c].replying > 0
    /\ snd[c].pc # "done" => Len(snd[c].chan) < ReplyCapacity
    /\ rcv' = [rcv EXCEPT ![c].replying = @ - 1]
    /\ snd' = ChannelSend(c)
    /\ \E n \in Replying(c) :
        hist' = [hist EXCEPT ![c].rep = @ \ {n},
                             ![c].log = IF budget.trace /\ snd[c].pc # "done"
                                        THEN Append(@, n) ELSE @]
    /\ UNCHANGED <<limit_connections, lst, disc, nextConn, conn, net, budget>>
    /\ UNCHANGED limit_requests

InitTower ==
    /\ InitCommon
    /\ budget = [conns |-> 1, frames |-> TowerFrames, enq |-> 0, faults |-> MaxFaults,
                 trace |-> FALSE]

NextTower ==
    \/ hello_tower_acquire
    \/ hello_tower_accept
    \/ hello_tower_accept_err
    \/ \E c \in Conns, known \in BOOLEAN : hello_tower_read(c, known)
    \/ \E c \in Conns : receiver_dispatch(c)
    \/ \E c \in Conns, tok \in Tokens, result \in RouterResults :
          hello_tower_task_done(c, tok, result)
    \/ \E c \in Conns : hello_tower_task_send(c)
    \/ \E c \in Conns : sender_recv(c)
    \/ \E c \in Conns : sender_write1(c)
    \/ \E c \in Conns : sender_try_recv(c)
    \/ \E c \in Conns : sender_write2(c)
    \/ \E c \in Conns : sender_flush(c)
    \/ \E c \in Conns, f \in Frame : peer_send(c, f)
    \/ \E c \in Conns : peer_close(c)
    \/ \E c \in Conns : peer_error(c)
    \/ \E c \in Conns : writer_break(c)

SpecTower == InitTower /\ [][NextTower]_vars

\* C2: on every connection the handler tasks spawned by the receiver and not
\* yet finished, those still sending their reply included, number at most
\* MAX_REQUESTS.
C2_HandlerTasksBounded ==
    \A c \in Conns : InFlight(c) + rcv[c].replying <= MAX_REQUESTS

\* C8: a request for a well-known token without a handler, or for an
\* ephemeral token without a pending reply, never resolves to None (it
\* resolves to Some(EndpointNotFound reply)).
C8_UnknownEndpointAnswered ==
    \A c \in Conns : ~hist[c].unroutedNone

-----------------------------------------------------------------------------
(* services/mod.rs: hello, handle_connection and handle_frame, the server   *)
(* with the process-wide request semaphore limit_requests.  lst is the      *)
(* accept loop of hello, rcv[c] the task that runs handle_connection and    *)
(* the handler tasks it spawns, snd[c] the task of spawn_sender.            *)

\* server.limit_connections.clone().acquire_owned().await?
services_hello_acquire ==
    /\ lst.pc = "acquire"
    /\ limit_connections > 0
    /\ limit_connections' = limit_connections - 1
    /\ lst' = [lst EXCEPT !.pc = "accept"]
    /\ UNCHANGED <<limit_requests, disc, nextConn, conn, net, rcv, snd, hist, budget>>

\* server.listener.accept().await? and the spawn of the connection's task,
\* which owns the permit; handle_connection starts with the synchronous
\* connection::new(conn), the reply channel and spawn_sender.
services_hello_accept ==
    /\ lst.pc = "accept"
    /\ budget.conns > 0
    /\ nextConn < NumConns
    /\ LET c == nextConn + 1 IN
        /\ nextConn' = c
        /\ conn' = [conn EXCEPT ![c] = [ConnInit EXCEPT !.st = "up",
                                            !.origin = "handle_connection",
                                            !.permit = "shared"]]
        /\ snd' = [snd EXCEPT ![c].pc = "recv"]
        /\ rcv' = [rcv EXCEPT ![c].pc = "read"]
    /\ lst' = [lst EXCEPT !.pc = "acquire"]
    /\ budget' = [budget EXCEPT !.conns = @ - 1]
    /\ UNCHANGED <<limit_connections, limit_requests, disc, net, hist>>

\* server.listener.accept().await? fails: hello returns, dropping its permit.
services_hello_accept_err ==
    /\ lst.pc = "accept"
    /\ budget.faults > 0
    /\ budget' = [budget EXCEPT !.faults = @ - 1]
    /\ limit_connections' = PermitsAfterDrop("shared")
    /\ lst' = [lst EXCEPT !.pc = "done", !.exit = "accept"]
    /\ UNCHANGED <<limit_requests, disc, nextConn, conn, net, rcv, snd, hist>>

\* handle_connection up to the request semaphore: reader.read_frame().await?,
\* the length check, peek_file_identifier()?, from_id(file_identifier)?.
\* When handle_connection returns, Ok or Err, the connection's task prints
\* and drops the connection permit (line 262).
handle_connection_read(c, known) ==
    /\ conn[c].origin = "handle_connection"
    /\ rcv[c].pc = "read"
    /\ IF net[c].closed
       THEN /\ ReceiverExit(c, "closed")
            /\ net' = net
       ELSE IF net[c].inbound # <<>>
       THEN LET frame == Head(net[c].inbound) IN
            /\ net' = [net EXCEPT ![c].inbound = Tail(@)]
            /\ IF frame.len < MIN_PAYLOAD
               THEN UNCHANGED <<rcv, conn, limit_connections>>
               ELSE IF ~known
               THEN ReceiverExit(c, "file_identifier")
               ELSE /\ rcv' = [rcv EXCEPT ![c].pc = "ready", ![c].held = <<frame>>]
                    /\ UNCHANGED <<conn, limit_connections>>
       ELSE /\ net[c].peer \in {"closed", "error"}
            /\ ReceiverExit(c, IF net[c].peer = "closed" THEN "eof" ELSE "err")
            /\ net' = net
    /\ UNCHANGED <<limit_requests, lst, disc, nextConn, snd, hist, budget>>

\* Mutant of handle_connection_spawn: the handler task is spawned without a
\* permit of the request semaphore.
handle_connection_spawn_unlimited(c) ==
    /\ conn[c].origin = "handle_connection"
    /\ rcv[c].pc = "ready"
    /\ rcv' = [rcv EXCEPT ![c].pc = "read", ![c].held = <<>>,
                          ![c].handling[Head(rcv[c].held).token] = @ + 1]
    /\ UNCHANGED <<limit_connections, limit_requests, lst, disc, nextConn, conn, net, snd,
                   hist, budget>>

\* limit_requests.acquire().await.unwrap().forget() and tokio::spawn of the
\* task that runs handle_frame; the loop then reads the next frame.
handle_connection_spawn(c) ==
    /\ conn[c].origin = "handle_connection"
    /\ rcv[c].pc = "ready"
    /\ limit_requests > 0
    /\ limit_requests' = limit_requests - 1
    /\ rcv' = [rcv EXCEPT ![c].pc = "read", ![c].held = <<>>,
                          ![c].handling[Head(rcv[c].held).token] = @ + 1]
    /\ UNCHANGED <<limit_connections, lst, disc, nextConn, conn, net, snd, hist, budget>>

\* Mutant of handle_frame_done: an Err of handle_frame ends the handler task
\* before limit_requests.add_permits(1).
handle_frame_done_leak(c, tok, result) ==
    /\ conn[c].origin = "handle_connection"
    /\ rcv[c].handling[tok] > 0
    /\ result \in handle_req(tok)
    /\ LET waits == /\ result = "some"
                    /\ snd[c].pc # "done"
                    /\ Len(snd[c].chan) >= ReplyCapacity
           ok == result = "none" \/ (result = "some" /\ snd[c].pc # "done")
       IN /\ rcv' = [rcv EXCEPT ![c].handling[tok] = @ - 1,
                                ![c].replying = IF waits THEN @ + 1 ELSE @]
          /\ snd' = IF result = "some" /\ ~waits THEN ChannelSend(c) ELSE snd
          /\ limit_requests' = IF waits \/ ~ok THEN limit_requests
                                ELSE limit_requests + 1
          /\ hist' = [hist EXCEPT ![c].ended =
                          IF waits THEN @ ELSE @ \cup {IF ok THEN "Ok" ELSE "Err"}]
    /\ UNCHANGED <<limit_connections, lst, disc, nextConn, conn, net, budget>>

\* The handler task from the result of handle_req to its next await point.
\* Err and None end handle_frame; Some(response) goes to
\* response_tx.send(response.frame).await?: with room in the reply channel
\* the frame is enqueued, with the sender task gone the send is an Err, and
\* with the channel full the task waits in send.  When handle_frame has
\* returned, Ok or Err, the task calls limit_requests.add_permits(1).
handle_frame_done(c, tok, result) ==
    /\ conn[c].origin = "handle_connection"
    /\ rcv[c].handling[tok] > 0
    /\ result \in handle_req(tok)
    /\ LET waits == /\ result = "some"
                    /\ snd[c].pc # "done"
                    /\ Len(snd[c].chan) >= ReplyCapacity
       IN /\ rcv' = [rcv EXCEPT ![c].handling[tok] = @ - 1,
                                ![c].replying = IF waits THEN @ + 1 ELSE @]
          /\ snd' = IF result = "some" /\ ~waits THEN ChannelSend(c) ELSE snd
          /\ limit_requests' = IF waits THEN limit_requests ELSE limit_requests + 1
          /\ hist' = [hist EXCEPT ![c].ended =
                          IF waits THEN @
                          ELSE @ \cup {IF \/ result = "none"
                                          \/ (result = "some" /\ snd[c].pc # "done")
                                       THEN "Ok" ELSE "Err"}]
    /\ UNCHANGED <<limit_connections, lst, disc, nextConn, conn, net, budget>>

\* A task waiting in response_tx.send(..).await resumes: the reply channel
\* has room again, or the sender task is gone and the send is an Err;
\* handle_frame returns and the task calls limit_requests.add_permits(1).
handle_frame_send(c) ==
    /\ conn[c].origin = "handle_connection"
    /\ rcv[c].replying > 0
    /\ snd[c].pc # "done" => Len(snd[c].chan) < ReplyCapacity
    /\ rcv' = [rcv EXCEPT ![c].replying = @ - 1]
    /\ snd' = ChannelSend(c)
    /\ limit_requests' = limit_requests + 1
    /\ hist' = [hist EXCEPT ![c].ended =
                    @ \cup {IF snd[c].pc # "done" THEN "Ok" ELSE "Err"}]
    /\ UNCHANGED <<limit_connections, lst, disc, nextConn, conn, net, budget>>

InitHC ==
    /\ InitCommon
    /\ budget = [conns |-> 1, frames |-> HCFrames, enq |-> 0, faults |-> MaxFaults,
                 trace |-> FALSE]

NextHC ==
    \/ services_hello_acquire
    \/ services_hello_accept
    \/ services_hello_accept_err
    \/ \E c \in Conns, known \in BOOLEAN : handle_connection_read(c, known)
    \/ \E c \in Conns : handle_connection_spawn(c)
    \/ \E c \in Conns, tok \in Tokens, result \in RouterResults :
          handle_frame_done(c, tok, result)
    \/ \E c \in Conns : handle_frame_send(c)
    \/ \E c \in Conns : sender_recv(c)
    \/ \E c \in Conns : sender_write1(c)
    \/ \E c \in Conns : sender_try_recv(c)
    \/ \E c \in Conns : sender_write2(c)
    \/ \E c \in Conns : sender_flush(c)
    \/ \E c \in Conns, f \in Frame : peer_send(c, f)
    \/ \E c \in Conns : peer_close(c)
    \/ \E c \in Conns : peer_error(c)
    \/ \E c \in Conns : peer_stall(c)
    \/ \E c \in Conns : writer_break(c)

SpecHC == InitHC /\ [][NextHC]_vars

\* C11: no frame is written to a connection and no inbound frame of it is
\* dispatched unless the handshake has completed in both directions: the local
\* ConnectPacket was sent and the peer's was read.
C11_HandshakeBeforeFrames ==
    \A c \in Conns :
        (snd[c].written # <<>> \/ InFlight(c) > 0)
            => (conn[c].cpSent /\ conn[c].cpRead)

\* C12: enqueueing a message on a ConnectionHandler returns an error only when
\* the connection's sender task has ended: no call has returned an error
\* while the sender was running.
C12_EnqueueFailsOnlyWithoutSender ==
    \A c \in Conns : ~hist[c].enqRefused

\* C13: with MAX_CONNECTIONS + 1 peers connecting, MAX_CONNECTIONS are served
\* at once and the extra one is accepted once a live connection has closed:
\* while the server runs and fewer than MAX_CONNECTIONS connections are live,
\* the server is in accept or can take the permit it needs to get there.
C13_CapacityIsAccepted ==
    (lst.pc # "done" /\ Cardinality({c \in Conns : conn[c].st = "up"}) < MAX_CONNECTIONS)
        => (lst.pc = "accept" \/ (lst.pc = "acquire" /\ limit_connections > 0))

\* C14: after the peer has half-closed and the receiver has seen None and
\* returned, the sender task of the connection ends too and the connection
\* permit is released.
C14_HalfCloseEndsBothTasks ==
    \A c \in DataConns :
        (rcv[c].exit = "eof") ~> (snd[c].pc = "done" /\ conn[c].permit = "none")

-----------------------------------------------------------------------------
(* SpecLimiter: the receiver of connection_handler.rs and its limiter on    *)
(* one outgoing connection whose peer sends one request more than the       *)
(* limiter has permits.                                                      *)

InitLimiter ==
    /\ InitCommon
    /\ budget = [conns |-> 1, frames |-> MAX_REQUESTS + 1, enq |-> 0, faults |-> MaxFaults,
                 trace |-> FALSE]

NextLimiter ==
    \/ new_outgoing_connection
    \/ \E c \in Conns : ConnectionHandler_new_ok(c)
    \/ \E c \in Conns : ConnectionHandler_new_err(c)
    \/ \E c \in Conns : receiver_read(c)
    \/ \E c \in Conns : receiver_dispatch(c)
    \/ \E c \in Conns, tok \in Tokens, result \in RouterResults : task_done(c, tok, result)
    \/ \E c \in Conns : task_reply(c)
    \/ \E c \in Conns : sender_recv(c)
    \/ \E c \in Conns : sender_write1(c)
    \/ \E c \in Conns : sender_try_recv(c)
    \/ \E c \in Conns : sender_write2(c)
    \/ \E c \in Conns : sender_flush(c)
    \/ \E c \in Conns, f \in Frame : peer_send(c, f)
    \/ \E c \in Conns : peer_close(c)
    \/ \E c \in Conns : peer_error(c)
    \/ \E c \in Conns : writer_break(c)
    \/ \E c \in Conns : app_drop_handler(c)

SpecLimiter == InitLimiter /\ [][NextLimiter]_vars

-----------------------------------------------------------------------------
(* SpecRouter: connection_handler.rs with the requests the router sends on  *)
(* a connection and their pending-reply entries.                            *)

NextRouter ==
    \/ Next
    \/ \E c \in Conns : RequestRouter_send(c)
    \/ \E c \in Conns : RequestRouter_deliver(c)

SpecRouter == Init /\ [][NextRouter]_vars

FairSpecRouter ==
    SpecRouter /\ \A c \in DataConns : WF_vars(TaskSteps(c) \/ RequestRouter_deliver(c))

\* C15: once a connection is torn down (its receiver or its sender task has
\* ended), every pending-reply entry of a request sent on it is resolved: none
\* stays in the table for ever.
C15_PendingResolvedOnTeardown ==
    \A c \in DataConns :
        (rcv[c].pc = "done" \/ snd[c].pc = "done") ~> (conn[c].pending = 0)

\* C16: flow::hello answers every ping that carries a reply-promise UID with
\* exactly one frame on the same connection, whose token is that UID and whose
\* payload is empty: the frames written on a connection are the replies to
\* the pings read on it, in order, and a ping is without its reply only while
\* the reply is being written or after the connection's writer has failed.
C16_PingAnswered ==
    \A c \in Conns :
        conn[c].origin = "hello" =>
            /\ Len(snd[c].written) <= Len(hist[c].pings)
            /\ \A i \in 1..Len(snd[c].written) :
                    snd[c].written[i] = [token |-> hist[c].pings[i], len |-> 0]
            /\ Len(hist[c].pings) > Len(snd[c].written) =>
                    /\ Len(hist[c].pings) = Len(snd[c].written) + 1
                    /\ \/ (lst.pc = "write" /\ lst.conn = c)
                       \/ net[c].wr = "broken"

\* C16 witness: two pings with different reply-promise UIDs have been
\* answered on one connection.
C16_Witness ==
    \E c \in Conns :
        /\ conn[c].origin = "hello"
        /\ Len(snd[c].written) = 2
        /\ snd[c].written[1].token # snd[c].written[2].token

\* C17: the receiver loop of a connection ends only on a clean EOF or on a
\* fatal error of the frame codec or the transport (the stream closed under
\* it included); nothing in a well-framed inbound frame makes it return.
C17_ReceiverEndsOnEofOrFatalError ==
    \A c \in Conns :
        rcv[c].pc = "done" => rcv[c].exit \in {"eof", "err", "closed"}

\* C18: on each connection's limiter only the receiver task dispatches, each
\* dispatch is poll_ready and call in one step of that task, and no request
\* is dispatched without a permit: the requests in flight never exceed the
\* limiter's MAX_REQUESTS permits, and while the receiver waits in poll_ready
\* it holds exactly the one frame it will dispatch.
C18_PollReadyThenCall ==
    \A c \in Conns :
        /\ InFlight(c) <= MAX_REQUESTS
        /\ hist[c].dispatchers \subseteq {"receiver"}
        /\ rcv[c].pc = "ready" <=> Len(rcv[c].held) = 1
        /\ Len(rcv[c].held) <= 1

\* C18 witness: the limiter is full and the receiver waits in poll_ready with
\* the next request in hand.
C18_Witness ==
    \E c \in Conns : InFlight(c) = MAX_REQUESTS /\ rcv[c].pc = "ready"

C20_StalledCannotExhaust ==
    SumOver([c \in Conns |->
                IF /\ net[c].wr = "stalled"
                   /\ snd[c].pc \in {"write1", "write2", "flush"}
                   /\ Len(snd[c].chan) >= ReplyCapacity
                THEN rcv[c].replying ELSE 0], Conns)
        < MAX_REQUESTS

-----------------------------------------------------------------------------
(* The order of requests and replies on one connection: the receiver of     *)
(* connection_handler.rs and its tasks, with every request followed by the  *)
(* position of its frame on the wire.                                       *)

OrderFrames == MaxFrames + 1

InitOrder ==
    /\ InitCommon
    /\ budget = [conns |-> 1, frames |-> OrderFrames, enq |-> 0, faults |-> MaxFaults,
                 trace |-> TRUE]

SpecOrder == InitOrder /\ [][NextLimiter]_vars

Ascending(q) == \A i, j \in 1..Len(q) : i < j => q[i] < q[j]
Range(q) == {q[i] : i \in 1..Len(q)}

\* C21: on each connection the requests are passed to the limiter in the
\* order their frames were read from the wire: the frames dispatched so far
\* are in ascending wire position, the frame the receiver holds comes after
\* all of them, and the frames not yet read come after that one, in wire
\* order.  Each dispatched request yields at most one enqueued reply: the
\* replies enqueued so far belong to distinct dispatched requests whose tasks
\* are past both the future and the enqueue.
C21_DispatchedInReadOrder ==
    \A c \in Conns :
        LET h == hist[c]
            wire == [k \in 1..Len(net[c].inbound) |-> net[c].inbound[k].seq]
            held == [k \in 1..Len(rcv[c].held) |-> rcv[c].held[k].seq]
        IN /\ Ascending(h.dispatched \o held \o wire)
           /\ Len(rcv[c].held) <= 1
           /\ \A i, j \in 1..Len(h.log) : i # j => h.log[i] # h.log[j]
           /\ Range(h.log) \subseteq Range(h.dispatched)
           /\ Range(h.log) \cap ({r.seq : r \in h.open} \cup h.rep) = {}

\* C21 witness: the reply to a later request is enqueued before the reply to
\* an earlier one.
C21_Witness ==
    \E c \in Conns :
        \E i, j \in 1..Len(hist[c].log) : i < j /\ hist[c].log[i] > hist[c].log[j]

\* Handler tasks of handle_connection that have acquired a permit of the
\* request semaphore and not yet called add_permits(1).
PermitHolders ==
    SumOver([c \in Conns |->
                IF conn[c].origin = "handle_connection"
                THEN InFlight(c) + rcv[c].replying ELSE 0], Conns)

\* C22: the permits of the request semaphore are conserved in
\* handle_connection: the available permits plus the handler tasks that have
\* acquired one and not yet returned it are MAX_REQUESTS, whether handle_frame
\* ended with Ok or with Err; with every handler task finished the semaphore
\* holds MAX_REQUESTS permits again.
C22_RequestPermitsConserved ==
    /\ limit_requests \in 0..MAX_REQUESTS
    /\ limit_requests + PermitHolders = MAX_REQUESTS

\* C22 witness: handler tasks have ended with Ok and with Err, none is left
\* and every permit is back.
C22_Witness ==
    \E c \in Conns :
        /\ conn[c].origin = "handle_connection"
        /\ hist[c].ended = {"Ok", "Err"}
        /\ PermitHolders = 0
        /\ limit_requests = MAX_REQUESTS

====
